---------------------------- MODULE Spec2Model ----------------------------
(***************************************************************************)
(* A model of iRunner: the command runner (utils.run_cmd), its error type  *)
(* (utils.ApplicationError), the archive statistics reader                 *)
(* (irunner.SequenceReadArchive) and the pipeline driver (irunner.main).   *)
(*                                                                         *)
(* Python strings are sequences of characters, so that strip, split, repr   *)
(* and int() are computed character by character.  A character is the      *)
(* one-character string that holds it; the characters are those of         *)
(* Latin-1, U+0000 to U+00FF (see Latin1 below).  A bytes object is a       *)
(* sequence of integers 0..255.  A Python value that may be None is a       *)
(* record [type, val].                                                     *)
(*                                                                         *)
(* An int read from a report is a sign and the binary digits of a          *)
(* magnitude of any length; a float is a double: a sign, 53 binary digits  *)
(* and an exponent, with its rounding, its subnormal numbers and inf.      *)
(***************************************************************************)
EXTENDS Integers, Sequences, FiniteSets, TLC

VARIABLES
    pc,          \* main: the stage the driver is about to run
    args,        \* main: the parsed command line (sra, check, gsize)
    world,       \* the file system main sees: the files the sra path names, the READS.sra link, the fastq directory
    sra,         \* main: the SequenceReadArchive object (its _stat_tree), once built
    invoked,     \* the command strings handed to subprocess.Popen, in order
    rcs,         \* the exit code of each command of `invoked`
    log,         \* the records written to runner.log, in order
    exitStatus,  \* the exit status of the process, once it has ended (-1 while it runs)
    traceback,   \* the exception that ended main unhandled, and the stage it left
    call,        \* the inputs of the function under study (function specifications)
    ret          \* its result

vars == <<pc, args, world, sra, invoked, rcs, log, exitStatus, traceback, call, ret>>
driver == <<pc, args, world, sra, invoked, rcs, log, exitStatus, traceback>>

----------------------------------------------------------------------------
(* Bounds of the model.                                                    *)

\* The longest stderr text given to ApplicationError.__str__.
MaxErrLen == 4
\* The largest number of Quality entries of a statistics report.
MaxQuality == 2
\* The largest positive exit code a child process returns.
MaxReturnCode == 2

----------------------------------------------------------------------------
(* Python values.                                                          *)

None == [type |-> "NoneType", val |-> <<>>]
PyStr(s) == [type |-> "str", val |-> s]

\* The sequences over S of length at most n.
SeqsUpTo(S, n) == UNION {[1..k -> S] : k \in 0..n}

\* The result of a function that was not called yet.
NotCalled == [done |-> FALSE]

\* bool(x) of a value that is a str or None.
Truthy(x) == x.type = "str" /\ x.val # <<>>

\* The characters, in code point order: Latin1[n + 1] is chr(n).  A string
\* of the language cannot hold U+0000 or the grave accent U+0060, which are
\* written by their names, nor a character beyond U+00FF.
Latin1 == <<
      "U+0000", "", "", "", "", "", "", "", "", "\t", "\n", "", "\f", "\r", "", "",
      "", "", "", "", "", "", "", "", "", "", "", "", "", "", "", "",
      " ", "!", "\"", "#", "$", "%", "&", "'", "(", ")", "*", "+", ",", "-", ".", "/",
      "0", "1", "2", "3", "4", "5", "6", "7", "8", "9", ":", ";", "<", "=", ">", "?",
      "@", "A", "B", "C", "D", "E", "F", "G", "H", "I", "J", "K", "L", "M", "N", "O",
      "P", "Q", "R", "S", "T", "U", "V", "W", "X", "Y", "Z", "[", "\\", "]", "^", "_",
      "U+0060", "a", "b", "c", "d", "e", "f", "g", "h", "i", "j", "k", "l", "m", "n", "o",
      "p", "q", "r", "s", "t", "u", "v", "w", "x", "y", "z", "{", "|", "}", "~", "",
      "", "", "", "", "", "", "", "", "", "", "", "", "", "", "", "",
      "", "", "", "", "", "", "", "", "", "", "", "", "", "", "", "",
      " ", "¡", "¢", "£", "¤", "¥", "¦", "§", "¨", "©", "ª", "«", "¬", "­", "®", "¯",
      "°", "±", "²", "³", "´", "µ", "¶", "·", "¸", "¹", "º", "»", "¼", "½", "¾", "¿",
      "À", "Á", "Â", "Ã", "Ä", "Å", "Æ", "Ç", "È", "É", "Ê", "Ë", "Ì", "Í", "Î", "Ï",
      "Ð", "Ñ", "Ò", "Ó", "Ô", "Õ", "Ö", "×", "Ø", "Ù", "Ú", "Û", "Ü", "Ý", "Þ", "ß",
      "à", "á", "â", "ã", "ä", "å", "æ", "ç", "è", "é", "ê", "ë", "ì", "í", "î", "ï",
      "ð", "ñ", "ò", "ó", "ô", "õ", "ö", "÷", "ø", "ù", "ú", "û", "ü", "ý", "þ", "ÿ">>

chr(n) == Latin1[n + 1]
ord(ch) == (CHOOSE n \in 1..256 : Latin1[n] = ch) - 1

\* str.isspace: the characters str.strip, str.lstrip and str.rstrip remove
\* when called with no argument.
Whitespace ==
    {chr(n) : n \in {9, 10, 11, 12, 13, 28, 29, 30, 31, 32, 133, 160}}

\* The characters int() ignores around a number: the ASCII white space of C,
\* and the other spaces, which it first rewrites to " ".  U+001C to U+001F
\* are not among them.
IntWhitespace == {chr(n) : n \in {9, 10, 11, 12, 13, 32, 133, 160}}

\* not str.isprintable: the characters repr writes as \xNN (\t, \n and \r
\* have escapes of their own).
NonPrintable == {chr(n) : n \in (0..31) \cup (127..160) \cup {173}}

RECURSIVE lstrip_chars(_, _)
lstrip_chars(s, chars) ==
    IF s # <<>> /\ Head(s) \in chars THEN lstrip_chars(Tail(s), chars) ELSE s

RECURSIVE rstrip_chars(_, _)
rstrip_chars(s, chars) ==
    IF s # <<>> /\ s[Len(s)] \in chars
    THEN rstrip_chars(SubSeq(s, 1, Len(s) - 1), chars)
    ELSE s

lstrip(s) == lstrip_chars(s, Whitespace)
rstrip(s) == rstrip_chars(s, Whitespace)

\* s.split("\n", 1)[0]: the text before the first newline.
RECURSIVE split_first(_)
split_first(s) ==
    IF s = <<>> \/ Head(s) = "\n"
    THEN <<>>
    ELSE <<Head(s)>> \o split_first(Tail(s))

HasChar(s, ch) == \E i \in 1..Len(s) : s[i] = ch

\* repr(s) of a str: single quotes, unless the text holds a single quote and no
\* double quote; backslash and the quote in use escaped, \t, \n, \r written
\* so, every other character that is not printable written \xNN.
repr_quote(s) ==
    IF HasChar(s, "'") /\ ~HasChar(s, "\"") THEN "\"" ELSE "'"

HexDigits ==
    <<"0", "1", "2", "3", "4", "5", "6", "7", "8", "9", "a", "b", "c", "d", "e", "f">>

repr_char(ch, q) ==
    CASE ch = "\\" -> <<"\\", "\\">>
      [] ch = q    -> <<"\\", q>>
      [] ch = "\n" -> <<"\\", "n">>
      [] ch = "\t" -> <<"\\", "t">>
      [] ch = "\r" -> <<"\\", "r">>
      [] ch \in NonPrintable \ {"\n", "\t", "\r"} ->
             <<"\\", "x", HexDigits[(ord(ch) \div 16) + 1], HexDigits[(ord(ch) % 16) + 1]>>
      [] OTHER     -> <<ch>>

\* Every character of s escaped, by halves (command lines are long).
RECURSIVE repr_body(_, _)
repr_body(s, q) ==
    IF s = <<>> THEN <<>>
    ELSE IF Len(s) = 1 THEN repr_char(s[1], q)
    ELSE LET h == Len(s) \div 2
         IN  repr_body(SubSeq(s, 1, h), q) \o repr_body(SubSeq(s, h + 1, Len(s)), q)

repr(s) == <<repr_quote(s)>> \o repr_body(s, repr_quote(s)) \o <<repr_quote(s)>>

Digits == <<"0", "1", "2", "3", "4", "5", "6", "7", "8", "9">>

RECURSIVE NatStr(_)
NatStr(n) ==
    IF n < 10 THEN <<Digits[n + 1]>> ELSE NatStr(n \div 10) \o <<Digits[(n % 10) + 1]>>

\* "%d" % n (and str(n)) of an int.
format_d(n) == IF n < 0 THEN <<"-">> \o NatStr(0 - n) ELSE NatStr(n)

DigitValue(ch) == CHOOSE d \in 0..9 : Digits[d + 1] = ch
IsDigit(ch) == \E d \in 0..9 : Digits[d + 1] = ch

RECURSIVE NatValue(_, _)
NatValue(s, acc) ==
    IF s = <<>> THEN acc ELSE NatValue(Tail(s), 10 * acc + DigitValue(Head(s)))

\* The binary digits of a natural number, the leading one first (none for 0).
RECURSIVE BitsOf(_)
BitsOf(n) == IF n = 0 THEN <<>> ELSE Append(BitsOf(n \div 2), n % 2)

\* The number a few binary digits write.
RECURSIVE ValueOf(_)
ValueOf(bits) ==
    IF bits = <<>> THEN 0
    ELSE 2 * ValueOf(SubSeq(bits, 1, Len(bits) - 1)) + bits[Len(bits)]

Abs(n) == IF n < 0 THEN 0 - n ELSE n

Zeros(k) == [i \in 1..k |-> 0]

\* An int of Python has no width: it is a sign and the binary digits of a
\* magnitude, the leading one first (0 has no digit and no sign).
PyInt(n) == [neg |-> n < 0, bits |-> BitsOf(Abs(n))]

\* Binary digits without the zeros that lead them.
Strip(bits) ==
    LET ones == {i \in 1..Len(bits) : bits[i] = 1}
    IN  IF ones = {} THEN <<>>
        ELSE SubSeq(bits, CHOOSE i \in ones : \A j \in ones : i <= j, Len(bits))

\* The w last binary digits of a number.
LastBits(v, w) ==
    LET bits == BitsOf(v)
    IN  [i \in 1..w |-> IF i + Len(bits) > w THEN bits[i + Len(bits) - w] ELSE 0]

\* x < y of two numbers of as many binary digits: the first digit that
\* differs decides.
Less(x, y) ==
    LET differ == {i \in 1..Len(x) : x[i] # y[i]}
    IN  differ # {} /\ x[CHOOSE i \in differ : \A j \in differ : i <= j] = 0

\* x + y + carry of two numbers of as many binary digits: as many digits,
\* and the carry out of them; sixteen digits at a stretch.
RECURSIVE AddBits(_, _, _)
AddBits(x, y, carry) ==
    IF Len(x) <= 16
    THEN LET v == ValueOf(x) + ValueOf(y) + carry
         IN  [bits |-> LastBits(v, Len(x)), carry |-> IF Len(BitsOf(v)) > Len(x) THEN 1 ELSE 0]
    ELSE LET h == Len(x) \div 2
             low == AddBits(SubSeq(x, h + 1, Len(x)), SubSeq(y, h + 1, Len(y)), carry)
             high == IF low.carry = 1 THEN AddBits(SubSeq(x, 1, h), SubSeq(y, 1, h), 1)
                     ELSE AddBits(SubSeq(x, 1, h), SubSeq(y, 1, h), 0)
         IN  [bits |-> high.bits \o low.bits, carry |-> high.carry]

\* x - y of two numbers of as many binary digits, x >= y: x plus the
\* complement of y plus one, without the carry.
SubBits(x, y) == AddBits(x, [i \in 1..Len(y) |-> 1 - y[i]], 1).bits

\* a + b of two ints.
int_add(a, b) ==
    LET w == IF Len(a.bits) > Len(b.bits) THEN Len(a.bits) ELSE Len(b.bits)
        x == Zeros(w - Len(a.bits)) \o a.bits
        y == Zeros(w - Len(b.bits)) \o b.bits
        sum == AddBits(x, y, 0)
        difference == Strip(IF Less(x, y) THEN SubBits(y, x) ELSE SubBits(x, y))
    IN  IF a.neg = b.neg THEN [neg |-> a.neg, bits |-> Strip(<<sum.carry>> \o sum.bits)]
        ELSE [neg |-> difference # <<>> /\ (IF Less(x, y) THEN b.neg ELSE a.neg),
              bits |-> difference]

\* a < b of two ints.
int_lt(a, b) ==
    LET w == IF Len(a.bits) > Len(b.bits) THEN Len(a.bits) ELSE Len(b.bits)
        x == Zeros(w - Len(a.bits)) \o a.bits
        y == Zeros(w - Len(b.bits)) \o b.bits
    IN  IF a.neg # b.neg THEN a.neg
        ELSE IF a.neg THEN Less(y, x) ELSE Less(x, y)

\* A decimal numeral in groups of nine digits, the last group the last nine.
Limbs(digits) ==
    LET n == (Len(digits) + 8) \div 9
    IN  [i \in 1..n |->
            NatValue(SubSeq(digits,
                            IF i = 1 THEN 1 ELSE Len(digits) - 9 * (n - i + 1) + 1,
                            Len(digits) - 9 * (n - i)), 0)]

\* Half of such a numeral: every group halves, and takes the half of
\* 1000000000 when the group before it is odd.
Half(limbs) ==
    [i \in 1..Len(limbs) |->
        (limbs[i] \div 2) + (IF i > 1 /\ limbs[i - 1] % 2 = 1 THEN 500000000 ELSE 0)]

\* The k last binary digits of such a numeral, the last one first, and the
\* numeral halved k times.
RECURSIVE Halvings(_, _)
Halvings(limbs, k) ==
    IF k = 0 THEN [bits |-> <<>>, rest |-> limbs]
    ELSE IF k = 1 THEN [bits |-> <<limbs[Len(limbs)] % 2>>, rest |-> Half(limbs)]
    ELSE LET low == Halvings(limbs, k \div 2)
             high == Halvings(low.rest, k - k \div 2)
         IN  [bits |-> low.bits \o high.bits, rest |-> high.rest]

Reverse(s) == [i \in 1..Len(s) |-> s[Len(s) - i + 1]]

\* The binary digits of the number decimal digits write: a group of nine
\* decimal digits has no more than thirty binary ones.
DecimalBits(digits) ==
    LET limbs == Limbs(digits)
    IN  Strip(Reverse(Halvings(limbs, 30 * Len(limbs)).bits))

\* A digit string of int(): digits, with single underscores between digits.
IsDigitString(d) ==
    /\ d # <<>>
    /\ IsDigit(d[1])
    /\ IsDigit(d[Len(d)])
    /\ \A i \in 1..Len(d) :
           \/ IsDigit(d[i])
           \/ d[i] = "_" /\ IsDigit(d[i - 1]) /\ IsDigit(d[i + 1])

\* The numeral int() reads in a str: surrounding whitespace is ignored, one
\* sign is allowed, then comes a digit string.
numeral(s) ==
    LET t == rstrip_chars(lstrip_chars(s, IntWhitespace), IntWhitespace)
        signed == t # <<>> /\ Head(t) \in {"+", "-"}
        d == IF signed THEN Tail(t) ELSE t
    IN  [ok |-> IsDigitString(d), neg |-> signed /\ Head(t) = "-", digits |-> SelectSeq(d, IsDigit)]

\* int(s) of a str: the number of its numeral; a ValueError when there is
\* none, and when the numeral has more than 4300 digits (the limit Python
\* 3.11 sets on the conversion of a decimal text,
\* sys.get_int_max_str_digits()).
int(s) ==
    LET n == numeral(s)
        bits == DecimalBits(n.digits)
    IN  IF n.ok /\ Len(n.digits) <= 4300
        THEN [ok |-> TRUE, val |-> [neg |-> n.neg /\ bits # <<>>, bits |-> bits]]
        ELSE [ok |-> FALSE, val |-> PyInt(0)]

\* A continuation byte of UTF-8.
IsCont(byte) == byte \in 128..191

\* The length of the UTF-8 sequence a byte starts; 0 when it starts none.
utf8_len(lead) ==
    IF lead \in 0..127 THEN 1
    ELSE IF lead \in 194..223 THEN 2
    ELSE IF lead \in 224..239 THEN 3
    ELSE IF lead \in 240..244 THEN 4
    ELSE 0

\* The second bytes a lead byte admits (no overlong form, no surrogate,
\* nothing beyond U+10FFFF).
second_bytes(lead) ==
    CASE lead = 224 -> 160..191
      [] lead = 237 -> 128..159
      [] lead = 240 -> 144..191
      [] lead = 244 -> 128..143
      [] OTHER      -> 128..191

\* bytes.decode(): the code points of the text, or a UnicodeDecodeError
\* (ok = FALSE) when the bytes are not UTF-8.
RECURSIVE decode(_)
decode(b) ==
    IF b = <<>> THEN [ok |-> TRUE, val |-> <<>>]
    ELSE LET n == utf8_len(b[1])
             wellformed ==
                 /\ n > 0
                 /\ Len(b) >= n
                 /\ n > 1 => b[2] \in second_bytes(b[1])
                 /\ \A i \in 3..n : IsCont(b[i])
             cp == CASE n = 1 -> b[1]
                     [] n = 2 -> (b[1] - 192) * 64 + (b[2] - 128)
                     [] n = 3 -> (b[1] - 224) * 4096 + (b[2] - 128) * 64 + (b[3] - 128)
                     [] n = 4 -> (b[1] - 240) * 262144 + (b[2] - 128) * 4096
                                     + (b[3] - 128) * 64 + (b[4] - 128)
             rest == decode(SubSeq(b, n + 1, Len(b)))
         IN  IF ~wellformed \/ ~rest.ok
             THEN [ok |-> FALSE, val |-> <<>>]
             ELSE [ok |-> TRUE, val |-> <<cp>> \o rest.val]

\* The str of a sequence of code points.
chars(cps) == [i \in 1..Len(cps) |-> chr(cps[i])]

\* s.replace(old, new), old not empty.
RECURSIVE replace(_, _, _)
replace(s, old, new) ==
    IF Len(s) < Len(old) THEN s
    ELSE IF SubSeq(s, 1, Len(old)) = old
    THEN new \o replace(SubSeq(s, Len(old) + 1, Len(s)), old, new)
    ELSE <<Head(s)>> \o replace(Tail(s), old, new)

----------------------------------------------------------------------------
(* utils.ApplicationError                                                  *)

ApplicationError(returncode, cmd, stdout, stderr) ==
    [returncode |-> returncode, cmd |-> cmd, stdout |-> stdout, stderr |-> stderr]

\* A slip: the first line is cut before the leading whitespace is removed.
ApplicationError_msg_SplitFirst(self) ==
    IF self.stderr.type = "str"
    THEN rstrip(lstrip(split_first(self.stderr.val)))
    ELSE <<>>

\* The first line of stderr, as __str__ takes it; "" when stderr is no str
\* (the except branch).
ApplicationError_msg(self) ==
    IF self.stderr.type = "str"
    THEN rstrip(split_first(lstrip(self.stderr.val)))
    ELSE <<>>

ApplicationError_str(self) ==
    LET msg == ApplicationError_msg(self)
    IN  IF msg # <<>>
        THEN <<"N","o","n","-","z","e","r","o"," ","r","e","t","u","r","n"," ","c","o","d","e"," ">> \o format_d(self.returncode) \o <<" ","f","r","o","m"," ">>
                 \o repr(self.cmd) \o <<","," ","m","e","s","s","a","g","e"," ">> \o repr(msg)
        ELSE <<"N","o","n","-","z","e","r","o"," ","r","e","t","u","r","n"," ","c","o","d","e"," ">> \o format_d(self.returncode) \o <<" ","f","r","o","m"," ">>
                 \o repr(self.cmd)

----------------------------------------------------------------------------
(* utils.run_cmd                                                           *)

\* The stdout and stderr arguments: a bool, or a str naming a file.
OptBool(b) == [kind |-> "bool", b |-> b, name |-> <<>>]
OptFile(name) == [kind |-> "str", b |-> FALSE, name |-> name]

\* bool(opt): `not stdout` is its negation.
OptTruthy(opt) == IF opt.kind = "bool" THEN opt.b ELSE opt.name # <<>>

\* Where a stream of the child goes: os.devnull, a file, or a pipe.
stream_arg(opt) ==
    IF ~OptTruthy(opt) THEN [to |-> "devnull", name |-> <<>>]
    ELSE IF opt.kind = "str" THEN [to |-> "file", name |-> opt.name]
    ELSE [to |-> "pipe", name |-> <<>>]

\* What a child writes on a stream: bytes.  The report of sra-stat is held
\* as the document its text denotes: its bytes are UTF-8, and the line ends
\* of an XML text denote the same document however they are written.
Written(bytes) == [form |-> "bytes", val |-> bytes]
Report(document) == [form |-> "xml", val |-> document]

\* The text a pipe opened with universal_newlines=True delivers: the bytes
\* decoded (UTF-8), "\r\n" and then "\r" replaced by "\n"; or a
\* UnicodeDecodeError (ok = FALSE).
translate_newlines(data) ==
    IF data.form = "xml" THEN [ok |-> TRUE, val |-> data.val]
    ELSE LET text == decode(data.val)
         IN  IF ~text.ok THEN [ok |-> FALSE, val |-> <<>>]
             ELSE [ok |-> TRUE,
                   val |-> replace(replace(chars(text.val), <<"\r", "\n">>, <<"\n">>),
                                   <<"\r">>, <<"\n">>)]

\* What Popen.communicate returns for a stream: its text when it is piped,
\* None when it goes to a file or to os.devnull.
communicate(arg, data) ==
    IF arg.to = "pipe" THEN PyStr(translate_newlines(data).val) ELSE None

\* Whether communicate can decode what it read of a stream.
decodes(arg, data) == arg.to # "pipe" \/ translate_newlines(data).ok

\* `if return_code:`
raises(return_code) == return_code # 0

\* run_cmd(cmd, stdout=stdout, stderr=stderr) with a child that writes `out`
\* and `err` and exits with `returncode`.  The result is the exception raised
\* (by communicate, by an assert, or the ApplicationError) or the pair
\* returned, and the files the child's streams were written to.
run_cmd(cmd, stdout, stderr, child) ==
    LET stdout_arg == stream_arg(stdout)
        stderr_arg == stream_arg(stderr)
        stdout_str == communicate(stdout_arg, child.out)
        stderr_str == communicate(stderr_arg, child.err)
        files == {[name |-> n,
                   streams |-> {s \in {"stdout", "stderr"} :
                                   LET a == IF s = "stdout" THEN stdout_arg ELSE stderr_arg
                                   IN  a.to = "file" /\ a.name = n}] :
                     n \in {a.name : a \in {b \in {stdout_arg, stderr_arg} : b.to = "file"}}}
        base == [outcome |-> "return", value |-> <<stdout_str, stderr_str>>,
                 exc |-> ApplicationError(0, <<>>, None, None), files |-> files]
    IN  IF ~decodes(stdout_arg, child.out) \/ ~decodes(stderr_arg, child.err)
        THEN [base EXCEPT !.outcome = "UnicodeDecodeError", !.value = <<None, None>>]
        ELSE IF (~OptTruthy(stdout) /\ Truthy(stdout_str)) \/ (~OptTruthy(stderr) /\ Truthy(stderr_str))
        THEN [base EXCEPT !.outcome = "AssertionError"]
        ELSE IF raises(child.returncode)
        THEN [base EXCEPT !.outcome = "ApplicationError",
                          !.exc = ApplicationError(child.returncode, cmd, stdout_str, stderr_str)]
        ELSE base

----------------------------------------------------------------------------
(* irunner.SequenceReadArchive                                             *)

\* An element of the statistics tree: a tag, its attributes (names to texts)
\* and its child elements.
Element(tag, attrib, children) == [tag |-> tag, attrib |-> attrib, children |-> children]

\* The text sra-stat prints: the tree it denotes when it is well-formed XML.
Document(root) == [wellformed |-> TRUE, root |-> root]
NotXml == [wellformed |-> FALSE, root |-> Element("", <<>>, <<>>)]

\* ET.fromstring(text)
ET_fromstring(text) ==
    IF text.wellformed
    THEN [outcome |-> "return", val |-> text.root]
    ELSE [outcome |-> "ParseError", val |-> NotXml.root]

RECURSIVE findall_in(_, _)
findall_in(elems, tag) ==
    IF elems = <<>> THEN <<>>
    ELSE SelectSeq(Head(elems).children, LAMBDA e : e.tag = tag) \o findall_in(Tail(elems), tag)

\* root.findall('*/<tag>'): the grandchildren of the root with that tag, in
\* document order.
findall_star(root, tag) == findall_in(root.children, tag)

\* root.find('<tag>'): the first child of the root with that tag, if any.
find(root, tag) ==
    LET hits == SelectSeq(root.children, LAMBDA e : e.tag = tag)
    IN  IF hits = <<>> THEN [found |-> FALSE, elem |-> Element("", <<>>, <<>>)]
        ELSE [found |-> TRUE, elem |-> Head(hits)]

NoSra == [built |-> FALSE, run |-> <<>>, stat_tree |-> Element("", <<>>, <<>>)]

\* `int(quality.attrib['value']) >= min_score`
reaches(value, min_score) == ~int_lt(value, PyInt(min_score))

Raise(exc) == [outcome |-> exc, val |-> PyInt(0)]

\* The loop of count_bases over the Quality elements left, with c so far.
\* The count of an element is read only when its value reaches min_score.
RECURSIVE count_loop(_, _, _)
count_loop(qualities, min_score, c) ==
    IF qualities = <<>> THEN [outcome |-> "return", val |-> c]
    ELSE LET quality == Head(qualities)
             value == int(quality.attrib.value)
             count == int(quality.attrib.count)
         IN  IF "value" \notin DOMAIN quality.attrib THEN Raise("KeyError")
             ELSE IF ~value.ok THEN Raise("ValueError")
             ELSE IF ~reaches(value.val, min_score)
             THEN count_loop(Tail(qualities), min_score, c)
             ELSE IF "count" \notin DOMAIN quality.attrib THEN Raise("KeyError")
             ELSE IF ~count.ok THEN Raise("ValueError")
             ELSE count_loop(Tail(qualities), min_score, int_add(c, count.val))

count_bases(self, min_score) ==
    count_loop(findall_star(self.stat_tree, "Quality"), min_score, PyInt(0))

\* The property total_bases: count_bases() with the default min_score=0.
total_bases(self) == count_bases(self, 0)

\* The property layout: the nreads attribute of the Statistics element.
layout(self) ==
    LET statistics == find(self.stat_tree, "Statistics")
    IN  IF ~statistics.found THEN [outcome |-> "AttributeError", val |-> <<>>]
        ELSE IF "nreads" \notin DOMAIN statistics.elem.attrib
        THEN [outcome |-> "KeyError", val |-> <<>>]
        ELSE [outcome |-> "return", val |-> statistics.elem.attrib.nreads]

\* A Quality element and a report as sra-stat lays it out: the Quality
\* elements under QualityCount, the layout on Statistics.
Quality(value, count) == Element("Quality", [value |-> value, count |-> count], <<>>)
QualityCount(qualities) == Element("QualityCount", <<>>, qualities)
Statistics(nreads) == Element("Statistics", [nreads |-> nreads], <<>>)
Run(children) == Element("Run", <<>>, children)

NoTraceback == [stage |-> "", exc |-> ""]

----------------------------------------------------------------------------
(* irunner: the commands                                                   *)

\* The defaults of trimming (length, min_qual) and of --threads.
TrimLength == 36
TrimMinQual == 3
Threads == 8
\* The quality score and the percentage of the gate of main.
Q30Score == 30
MinQ30Percent == 80

\* os.path.join(a, b): an absolute b replaces a; otherwise b is appended,
\* after a slash unless a is empty or ends with one.
path_join(a, b) ==
    IF b # <<>> /\ Head(b) = "/" THEN b
    ELSE IF a = <<>> \/ a[Len(a)] = "/" THEN a \o b
    ELSE a \o <<"/">> \o b

sra_stat_cmd(run) == <<"s","r","a","-","s","t","a","t"," ","-","x","s","e"," ","2"," ">> \o run

dump_fastq_cmd(sra_file, out_dir) ==
    <<"f","a","s","t","q","-","d","u","m","p"," ","-","-","s","p","l","i","t","-","e"," ","-",
      "-","c","l","i","p"," ","-","-","o","u","t","d","i","r"," "," ">> \o out_dir \o <<" ">> \o sra_file

trimming_cmd(reads_1, reads_2, trim_1, trim_2, threads, length, min_qual) ==
    <<"f","a","s","t","p"," ","-","i"," ">> \o reads_1 \o <<" ","-","I"," ">> \o reads_2 \o <<" ","-","o"," ">> \o trim_1 \o <<" ","-","O"," ">> \o trim_2
        \o <<" ","-","-","l","e","n","g","t","h","_","r","e","q","u","i","r","e","d"," ">> \o format_d(length) \o <<" ","-","-","c","u","t","_","f","r","o","n","t"," ">> \o format_d(min_qual)
        \o <<" ","-","-","c","u","t","_","t","a","i","l"," ">> \o format_d(min_qual) \o <<" ","-","-","t","h","r","e","a","d"," ">> \o format_d(threads)
        \o <<" ","-","-","d","e","t","e","c","t","_","a","d","a","p","t","e","r","_","f","o","r","_",
      "p","e"," ","-","j"," ","/","d","e","v","/","n","u","l","l"," ","-","h"," ","/","d",
      "e","v","/","n","u","l","l"," ","-","t"," ","1">>

\* The command line of the assembly stage.
shovill_cmd(R1, R2, out_dir, tmp_dir, cpus, gsize) ==
    <<"s","h","o","v","i","l","l"," ","-","-","R","1"," ">> \o R1 \o <<" ","-","-","R","2"," ">> \o R2 \o <<" ","-","-","o","u","t","d","i","r"," ">> \o out_dir
        \o <<" ","-","-","d","e","p","t","h"," ","8","0"," ","-","-","t","m","p","d","i","r"," ">> \o tmp_dir \o <<" ","-","-","c","p","u","s"," ">> \o format_d(cpus)
        \o <<" ","-","-","f","o","r","c","e"," ","-","-","n","o","r","e","a","d","c","o","r","r"," ",
      "-","-","n","o","s","t","i","t","c","h">>
        \o (IF gsize # <<>> THEN <<" ","-","-","g","s","i","z","e"," ">> \o gsize ELSE <<>>)

\* The paths main builds from --outdir.
outdir == <<"o","u","t">>
tmpdir == <<"/","t","m","p">>
reads == path_join(outdir, <<"R","E","A","D","S",".","s","r","a">>)
fastq_dirname == path_join(outdir, <<"f","a","s","t","q">>)
raw_1 == path_join(fastq_dirname, <<"R","E","A","D","S","_","1",".","f","a","s","t","q">>)
raw_2 == path_join(fastq_dirname, <<"R","E","A","D","S","_","2",".","f","a","s","t","q">>)
paired_1 == path_join(fastq_dirname, <<"R","1",".","f","a","s","t","q",".","g","z">>)
paired_2 == path_join(fastq_dirname, <<"R","2",".","f","a","s","t","q",".","g","z">>)

\* The code points of a str.
code_points(s) == [i \in 1..Len(s) |-> ord(s[i])]

\* SequenceReadArchive._check_input: the first 8 bytes of the first line of
\* the file, decoded, must be 'NCBI.sra'.
check_input(infile) ==
    IF ~infile.exists THEN "FileNotFoundError"
    ELSE IF infile.lines = <<>> THEN "StopIteration"
    ELSE LET line == Head(infile.lines)
             head == decode(SubSeq(line, 1, IF Len(line) < 8 THEN Len(line) ELSE 8))
         IN  IF ~head.ok THEN "UnicodeDecodeError"
             ELSE IF head.val # code_points(<<"N","C","B","I",".","s","r","a">>) THEN "TypeError"
             ELSE "return"

\* The first k binary digits of the quotient r / d, of two numbers of as
\* many binary digits with r < 2 * d, and what is left, by long division:
\* a digit is a one when d goes into what is left, which then loses d and
\* doubles.
RECURSIVE QuotBits(_, _, _)
QuotBits(r, d, k) ==
    IF k = 0 THEN [bits |-> <<>>, rem |-> r]
    ELSE IF k = 1
    THEN LET left == IF Less(r, d) THEN r ELSE SubBits(r, d)
         IN  [bits |-> <<IF Less(r, d) THEN 0 ELSE 1>>, rem |-> Tail(left) \o <<0>>]
    ELSE LET first == QuotBits(r, d, k \div 2)
             rest == QuotBits(first.rem, d, k - k \div 2)
         IN  [bits |-> first.bits \o rest.bits, rem |-> rest.rem]

\* A binary number plus one: the last zero becomes a one and the ones after
\* it zeros; a number of ones only gets one digit more.
Inc(bits) ==
    LET zeros == {i \in 1..Len(bits) : bits[i] = 0}
        last == CHOOSE i \in zeros : \A j \in zeros : j <= i
    IN  IF zeros = {} THEN <<1>> \o [i \in 1..Len(bits) |-> 0]
        ELSE [i \in 1..Len(bits) |-> IF i < last THEN bits[i] ELSE IF i = last THEN 1 ELSE 0]

\* A float (a double) is a sign, the 53 binary digits of a significand and
\* the exponent of the first of them, from -1022 to 1023.  The first digit
\* is a one, except at the exponent -1022 (the subnormal numbers, and zero);
\* inf is an infinity.
Float(neg, man, exp) == [neg |-> neg, inf |-> FALSE, man |-> man, exp |-> exp]
float_zero(neg) == Float(neg, Zeros(53), -1022)
float_inf(neg) == [neg |-> neg, inf |-> TRUE, man |-> Zeros(53), exp |-> 1024]

\* The number with the binary digits sig (the first of exponent exp), and
\* something more after them when `more`, rounded to 53 digits that start
\* no lower than the exponent -1022: to the nearest such number, to the
\* even one on a tie.  The exponent is 1024 when the number is beyond the
\* floats.
Round(sig, exp, more) ==
    LET low == IF exp < -1022 THEN -1022 ELSE exp
        digits == Zeros(low - exp) \o sig \o Zeros(54)
        man == SubSeq(digits, 1, 53)
        sticky == more \/ \E i \in 55..Len(digits) : digits[i] = 1
        up == digits[54] = 1 /\ (sticky \/ man[53] = 1)
        inc == Inc(man)
    IN  IF ~up THEN [man |-> man, exp |-> low]
        ELSE IF Len(inc) = 53 THEN [man |-> inc, exp |-> low]
        ELSE [man |-> SubSeq(inc, 1, 53), exp |-> low + 1]

\* a / b of two ints: ZeroDivisionError when b is 0; otherwise the
\* quotient, correctly rounded, and OverflowError when that is beyond the
\* floats.  The digits of the two are aligned, so that the quotient of the
\* aligned numbers is between 1/2 and 2.
float_div(a, b) ==
    LET w == IF Len(a.bits) > Len(b.bits) THEN Len(a.bits) ELSE Len(b.bits)
        n == a.bits \o Zeros(w - Len(a.bits))
        d == b.bits \o Zeros(w - Len(b.bits))
        exp == Len(a.bits) - Len(b.bits) - (IF Less(n, d) THEN 1 ELSE 0)
        q == QuotBits(IF Less(n, d) THEN n \o <<0>> ELSE <<0>> \o n, <<0>> \o d, 54)
        r == Round(q.bits, exp, \E i \in 1..Len(q.rem) : q.rem[i] = 1)
    IN  IF b.bits = <<>> THEN [outcome |-> "ZeroDivisionError", val |-> float_zero(FALSE)]
        ELSE IF a.bits = <<>> THEN [outcome |-> "return", val |-> float_zero(a.neg # b.neg)]
        ELSE IF r.exp >= 1024 THEN [outcome |-> "OverflowError", val |-> float_zero(FALSE)]
        ELSE [outcome |-> "return", val |-> Float(a.neg # b.neg, r.man, r.exp)]

RECURSIVE Pow2(_)
Pow2(k) == IF k = 0 THEN 1 ELSE 2 * Pow2(k - 1)

\* bits times n plus carry: as many digits as bits has, and the carry out of
\* them; sixteen digits at a stretch.
RECURSIVE MulBits(_, _, _)
MulBits(bits, n, carry) ==
    IF Len(bits) <= 16
    THEN LET v == ValueOf(bits) * n + carry
         IN  [bits |-> LastBits(v, Len(bits)), carry |-> v \div Pow2(Len(bits))]
    ELSE LET low == MulBits(SubSeq(bits, Len(bits) - 15, Len(bits)), n, carry)
             high == MulBits(SubSeq(bits, 1, Len(bits) - 16), n, low.carry)
         IN  [bits |-> high.bits \o low.bits, carry |-> high.carry]

\* x * n of a float and a positive int that a float holds exactly (100):
\* the product, correctly rounded, and an infinity when that is beyond the
\* floats.
float_mul(x, n) ==
    LET digits == MulBits(x.man, n, 0)
        sig == Strip(BitsOf(digits.carry) \o digits.bits)
        r == Round(sig, x.exp + Len(sig) - 53, FALSE)
    IN  IF x.inf \/ sig = <<>> THEN x
        ELSE IF r.exp >= 1024 THEN float_inf(x.neg)
        ELSE Float(x.neg, r.man, r.exp)

\* x < n of a float and a positive int: the exact comparison.
float_lt(x, n) ==
    LET bits == BitsOf(n)
        man == [i \in 1..53 |-> IF i <= Len(bits) THEN bits[i] ELSE 0]
    IN  IF x.neg THEN TRUE
        ELSE IF x.inf THEN FALSE
        ELSE \/ x.exp < Len(bits) - 1
             \/ /\ x.exp = Len(bits) - 1
                /\ \E i \in 1..53 : x.man[i] < man[i] /\ \A j \in 1..(i - 1) : x.man[j] = man[j]

\* `sra.count_bases(30)/sra.count_bases()*100 < 80` with both counts at
\* hand: the exception of the division, or what the comparison says.
q30_below(count_30, count_all) ==
    LET quotient == float_div(count_30, count_all)
    IN  IF quotient.outcome # "return" THEN [outcome |-> quotient.outcome, val |-> FALSE]
        ELSE [outcome |-> "return",
              val |-> float_lt(float_mul(quotient.val, 100), MinQ30Percent)]

DebugRecord(msg) == [level |-> "DEBUG", msg |-> msg]
InfoRecord(msg) == [level |-> "INFO", msg |-> msg]

----------------------------------------------------------------------------
(* irunner.main, one action per stage.  A child process is an input: the   *)
(* exit code and what the external tool writes.                            *)

\* What a tool writes on stderr: nothing, b' bad\r\nrun', or b'\xe9' (a
\* Latin-1 text, which is not UTF-8).
DriverErrBytes == {<<>>, <<32, 98, 97, 100, 13, 10, 114, 117, 110>>, <<233>>}
DriverValueTexts == {<<"2">>, <<"3","0">>}
DriverCountTexts == {<<"0">>, <<"1">>, <<"4">>}
DriverQualities == {Quality(v, c) : v \in DriverValueTexts, c \in DriverCountTexts}
DriverLayouts == {<<"1">>, <<"2">>}
\* Counts beyond the ints a float holds exactly: 7999999999999999 of 10^16
\* bases, 10^308 of 1 base and 10^309 of 1 base (counts of 10^309 and of
\* 1 - 10^309); and a count of 4301 digits, one more than int() converts.
DriverLargeCounts ==
    {<<Quality(<<"3","0">>, <<"7","9","9","9","9","9","9","9","9","9","9","9","9","9","9","9">>), Quality(<<"2">>, <<"2","0","0","0","0","0","0","0","0","0","0","0","0","0","0","1">>)>>,
     <<Quality(<<"3","0">>, <<"1">> \o [i \in 1..308 |-> "0"]),
       Quality(<<"2">>, <<"-">> \o [i \in 1..308 |-> "9"])>>,
     <<Quality(<<"3","0">>, <<"1">> \o [i \in 1..309 |-> "0"]),
       Quality(<<"2">>, <<"-">> \o [i \in 1..309 |-> "9"])>>,
     <<Quality(<<"3","0">>, <<"1">> \o [i \in 1..4300 |-> "1"])>>}
DriverReports ==
    {NotXml}
    \cup {Document(Run(<<QualityCount(qs), Statistics(n)>>)) :
             qs \in SeqsUpTo(DriverQualities, MaxQuality), n \in DriverLayouts}
    \cup {Document(Run(<<QualityCount(qs), Statistics(<<"2">>)>>)) : qs \in DriverLargeCounts}
\* The exit codes of a tool started through the shell.
DriverReturnCodes == 0..MaxReturnCode
\* The input files, as the lines of bytes a binary read yields: an empty
\* file, an archive (b'NCBI.sra#'), a FASTQ file (b'@SRR1 length=36\n',
\* b'ACGT\n'), a gzip file (b'\x1f\x8b\x08\x00'), a file whose eighth byte
\* opens a two-byte character (b'NCBI.sr\xc3\xa9') and a text that is UTF-8
\* but not ASCII (b'\xc3\xa9t\xc3\xa9.fastq\n').
DriverInFiles ==
    {[exists |-> TRUE, lines |-> <<>>],
     [exists |-> TRUE, lines |-> <<<<78, 67, 66, 73, 46, 115, 114, 97, 35>>>>],
     [exists |-> TRUE, lines |-> <<<<64, 83, 82, 82, 49, 32, 108, 101, 110, 103, 116, 104, 61, 51, 54, 10>>, <<65, 67, 71, 84, 10>>>>],
     [exists |-> TRUE, lines |-> <<<<31, 139, 8, 0>>>>],
     [exists |-> TRUE, lines |-> <<<<78, 67, 66, 73, 46, 115, 114, 195, 169>>>>],
     [exists |-> TRUE, lines |-> <<<<195, 169, 116, 195, 169, 46, 102, 97, 115, 116, 113, 10>>>>]}
NoFile == [exists |-> FALSE, lines |-> <<>>]

\* os.path.isabs(path)
isabs(path) == path # <<>> /\ Head(path) = "/"

\* The sra argument with the files it names: infile is the file of that path
\* from the working directory, beside the file of that path from the output
\* directory (a relative path only; an absolute path names one file).  An
\* absolute path names any of the input files or none; a relative path
\* names an archive, with or without an archive of that path in the output
\* directory.
DriverInputs ==
    {[sra |-> <<"/","d","a","t","a","/","x",".","s","r","a">>, infile |-> f, beside |-> NoFile] : f \in DriverInFiles \cup {NoFile}}
    \cup {[sra |-> <<"x",".","s","r","a">>, infile |-> [exists |-> TRUE, lines |-> <<<<78, 67, 66, 73, 46, 115, 114, 97, 35>>>>], beside |-> f] :
              f \in {NoFile, [exists |-> TRUE, lines |-> <<<<78, 67, 66, 73, 46, 115, 114, 97, 35>>>>]}}

\* The children sra-stat can be, and those of the other tools.
StatChildren ==
    [returncode : DriverReturnCodes,
     out : {Report(document) : document \in DriverReports},
     err : {Written(bytes) : bytes \in DriverErrBytes}]
ToolChildren ==
    [returncode : DriverReturnCodes,
     out : {Written(<<>>)},
     err : {Written(bytes) : bytes \in DriverErrBytes}]

MainInit ==
    /\ pc = "start"
    /\ \E input \in DriverInputs :
          /\ args \in [sra : {input.sra}, check : BOOLEAN, gsize : {<<>>, <<"3",".","2","M">>}]
          /\ world \in [infile : {input.infile}, beside : {input.beside}, link : BOOLEAN,
                         fastq : {FALSE}, removed : {FALSE}]
    /\ sra = NoSra
    /\ invoked = <<>>
    /\ rcs = <<>>
    /\ log = <<>>
    /\ exitStatus = -1
    /\ traceback = NoTraceback
    /\ call = [fn |-> "main"]
    /\ ret = NotCalled

\* An exception nothing catches: the interpreter prints the traceback and the
\* process ends with status 1.
Unhandled(stage, exc) ==
    /\ pc' = "crashed"
    /\ exitStatus' = 1
    /\ traceback' = [stage |-> stage, exc |-> exc]

\* sys.exit(status)
SysExit(status) ==
    /\ pc' = "exited"
    /\ exitStatus' = status
    /\ traceback' = traceback

Continue(stage) ==
    /\ pc' = stage
    /\ exitStatus' = exitStatus
    /\ traceback' = traceback

\* The file the link READS.sra names: os.symlink(args.sra, reads) (line 71)
\* stores the path as it was given, and a relative path in a link is taken
\* from the directory of the link, the output directory.
reads_file == IF isabs(args.sra) THEN world.infile ELSE world.beside

\* Lines 69-78: the output directory, the READS.sra link and the log file.
main_setup ==
    /\ pc = "start"
    /\ IF world.link
       THEN Unhandled("setup", "FileExistsError") /\ world' = world
       ELSE Continue(IF args.check THEN "check" ELSE "dump")
            /\ world' = [world EXCEPT !.link = TRUE]
    /\ UNCHANGED <<args, sra, invoked, rcs, log, call, ret>>

\* Lines 80-84: SequenceReadArchive(reads) and the handler of its ApplicationError.
main_check_construct ==
    /\ pc = "check"
    /\ IF check_input(reads_file) # "return"
       THEN /\ Unhandled("check", check_input(reads_file))
            /\ UNCHANGED <<sra, invoked, rcs, log>>
       ELSE \E child \in StatChildren :
               LET cmd == sra_stat_cmd(reads)
                   r == run_cmd(cmd, OptBool(TRUE), OptBool(TRUE), child)
                   tree == ET_fromstring(r.value[1].val)
               IN  /\ invoked' = Append(invoked, cmd)
                   /\ rcs' = Append(rcs, child.returncode)
                   /\ IF r.outcome = "ApplicationError"
                      THEN /\ log' = Append(log, DebugRecord(ApplicationError_str(r.exc)))
                           /\ SysExit(0)
                           /\ sra' = sra
                      ELSE IF r.outcome # "return"
                      THEN /\ Unhandled("check", r.outcome)
                           /\ UNCHANGED <<sra, log>>
                      ELSE IF tree.outcome # "return"
                      THEN /\ Unhandled("check", tree.outcome)
                           /\ UNCHANGED <<sra, log>>
                      ELSE /\ sra' = [built |-> TRUE, run |-> reads, stat_tree |-> tree.val]
                           /\ Continue("layout")
                           /\ log' = log
    /\ UNCHANGED <<args, world, call, ret>>

\* A slip: a layout that is not paired is logged and the run goes on.
main_check_layout_NoAbort ==
    /\ pc = "layout"
    /\ LET l == layout(sra)
       IN  IF l.outcome # "return"
           THEN Unhandled("check", l.outcome) /\ log' = log
           ELSE IF l.val # <<"2">>
           THEN /\ log' = Append(log, DebugRecord(<<"L","a","y","o","u","t"," ","i","s"," ","n","o","t"," ","p","a","i","r","-","e","n","d">>))
                /\ Continue("q30")
           ELSE Continue("q30") /\ log' = log
    /\ UNCHANGED <<args, world, sra, invoked, rcs, call, ret>>

\* Lines 85-87.
main_check_layout ==
    /\ pc = "layout"
    /\ LET l == layout(sra)
       IN  IF l.outcome # "return"
           THEN Unhandled("check", l.outcome) /\ log' = log
           ELSE IF l.val # <<"2">>
           THEN /\ log' = Append(log, DebugRecord(<<"L","a","y","o","u","t"," ","i","s"," ","n","o","t"," ","p","a","i","r","-","e","n","d">>))
                /\ SysExit(1)
           ELSE Continue("q30") /\ log' = log
    /\ UNCHANGED <<args, world, sra, invoked, rcs, call, ret>>

\* Lines 88-90.
main_check_q30 ==
    /\ pc = "q30"
    /\ LET count_30 == count_bases(sra, Q30Score)
           count_all == count_bases(sra, 0)
           below == q30_below(count_30.val, count_all.val)
       IN  IF count_30.outcome # "return"
           THEN Unhandled("check", count_30.outcome) /\ log' = log
           ELSE IF count_all.outcome # "return"
           THEN Unhandled("check", count_all.outcome) /\ log' = log
           ELSE IF below.outcome # "return"
           THEN Unhandled("check", below.outcome) /\ log' = log
           ELSE IF below.val
           THEN /\ log' = Append(log, DebugRecord(<<"q","3","0"," ","b","a","s","e","s"," ","<"," ","8","0","%","%">>))
                /\ SysExit(1)
           ELSE Continue("dump") /\ log' = log
    /\ UNCHANGED <<args, world, sra, invoked, rcs, call, ret>>

\* A slip: the handler logs the error and the run goes on.
ToolStage_NoExit(info, cmd, next, made) ==
    \E child \in ToolChildren :
        LET r == run_cmd(cmd, OptBool(TRUE), OptBool(TRUE), child)
        IN  /\ invoked' = Append(invoked, cmd)
            /\ rcs' = Append(rcs, child.returncode)
            /\ IF r.outcome = "ApplicationError"
               THEN /\ log' = log \o <<InfoRecord(info), DebugRecord(ApplicationError_str(r.exc))>>
                    /\ Continue(next)
                    /\ world' = world
               ELSE IF r.outcome # "return"
               THEN /\ log' = Append(log, InfoRecord(info))
                    /\ Unhandled(pc, r.outcome)
                    /\ world' = [world EXCEPT !.fastq = world.fastq \/ (made /\ child.returncode = 0)]
               ELSE /\ log' = Append(log, InfoRecord(info))
                    /\ Continue(next)
                    /\ world' = [world EXCEPT !.fastq = world.fastq \/ made]

\* A tool stage of main: the info record, the command, and on an
\* ApplicationError the debug record and sys.exit("Aborted!"); any other
\* exception of run_cmd is caught by nothing.
ToolStage(info, cmd, next, made) ==
    \E child \in ToolChildren :
        LET r == run_cmd(cmd, OptBool(TRUE), OptBool(TRUE), child)
        IN  /\ invoked' = Append(invoked, cmd)
            /\ rcs' = Append(rcs, child.returncode)
            /\ IF r.outcome = "ApplicationError"
               THEN /\ log' = log \o <<InfoRecord(info), DebugRecord(ApplicationError_str(r.exc))>>
                    /\ SysExit(1)
                    /\ world' = world
               ELSE IF r.outcome # "return"
               THEN /\ log' = Append(log, InfoRecord(info))
                    /\ Unhandled(pc, r.outcome)
                    /\ world' = [world EXCEPT !.fastq = world.fastq \/ (made /\ child.returncode = 0)]
               ELSE /\ log' = Append(log, InfoRecord(info))
                    /\ Continue(next)
                    /\ world' = [world EXCEPT !.fastq = world.fastq \/ made]

\* Lines 91-97: fastq-dump, which makes the fastq directory.
main_dump ==
    /\ pc = "dump"
    /\ ToolStage(<<"D","u","m","p"," ","f","a","s","t","q"," ","f","r","o","m"," ","S","R","A">>, dump_fastq_cmd(reads, fastq_dirname), "trim", TRUE)
    /\ UNCHANGED <<args, sra, call, ret>>

\* Lines 98-107: fastp.
main_trimming ==
    /\ pc = "trim"
    /\ ToolStage(<<"r","e","a","d","s"," ","t","r","i","m","m","i","n","g">>,
                 trimming_cmd(raw_1, raw_2, paired_1, paired_2, Threads, TrimLength, TrimMinQual),
                 "assembly", FALSE)
    /\ UNCHANGED <<args, sra, call, ret>>

\* Lines 108-117: shovill.
main_assembly ==
    /\ pc = "assembly"
    /\ ToolStage(<<"a","s","s","e","m","b","l","y"," ","w","i","t","h"," ","s","h","o","v","i","l","l">>,
                 shovill_cmd(paired_1, paired_2, outdir, tmpdir, Threads, args.gsize),
                 "cleanup", FALSE)
    /\ UNCHANGED <<args, sra, call, ret>>

\* Lines 118-119: the fastq directory is removed and 'Done' is logged; main
\* returns and the process ends with status 0.
main_cleanup ==
    /\ pc = "cleanup"
    /\ IF ~world.fastq
       THEN Unhandled("cleanup", "FileNotFoundError") /\ UNCHANGED <<world, log>>
       ELSE /\ world' = [world EXCEPT !.fastq = FALSE, !.removed = TRUE]
            /\ log' = Append(log, InfoRecord(<<"D","o","n","e">>))
            /\ pc' = "done"
            /\ exitStatus' = 0
            /\ traceback' = traceback
    /\ UNCHANGED <<args, sra, invoked, rcs, call, ret>>

Next ==
    \/ main_setup
    \/ main_check_construct
    \/ main_check_layout
    \/ main_check_q30
    \/ main_dump
    \/ main_trimming
    \/ main_assembly
    \/ main_cleanup

Spec == MainInit /\ [][Next]_vars

----------------------------------------------------------------------------
(* The driver is idle in the specifications that study one function.       *)

DriverIdle ==
    /\ pc = "idle"
    /\ args = [sra |-> <<>>, check |-> FALSE, gsize |-> <<>>]
    /\ world = [infile |-> NoFile, beside |-> NoFile, link |-> FALSE,
                fastq |-> FALSE, removed |-> FALSE]
    /\ sra = NoSra
    /\ traceback = NoTraceback
    /\ invoked = <<>>
    /\ rcs = <<>>
    /\ log = <<>>
    /\ exitStatus = -1

----------------------------------------------------------------------------
(* ApplicationError.__str__ on every error of the bounded input sets.      *)

ErrChars == {"e", " ", "\n", "\f", "'"}
StrCmds == {<<"l","s">>, <<"a","'","b">>, <<"a", "'", "\"", "b">>}
StrReturnCodes == {-11, 1, 127}

StrInit ==
    /\ DriverIdle
    /\ \E rc \in StrReturnCodes, cmd \in StrCmds,
          stderr \in {None} \cup {PyStr(s) : s \in SeqsUpTo(ErrChars, MaxErrLen)} :
          call = [fn |-> "__str__", self |-> ApplicationError(rc, cmd, PyStr(<<>>), stderr)]
    /\ ret = NotCalled

StrCall ==
    /\ call.fn = "__str__"
    /\ ~ret.done
    /\ ret' = [done |-> TRUE, text |-> ApplicationError_str(call.self)]
    /\ UNCHANGED <<driver, call>>

StrNext == StrCall

SpecStr == StrInit /\ [][StrNext]_vars

----------------------------------------------------------------------------
(* run_cmd on every argument and child of the bounded input sets.          *)

RunCmds == {<<"t","r","u","e">>}
RunOpts == {OptBool(TRUE), OptBool(FALSE), OptFile(<<>>), OptFile(<<"o",".","t","x","t">>), OptFile(<<"e",".","t","x","t">>)}
\* What the child writes: nothing, b'hi\r\n', b'a\rb', or the byte b'\xff'.
RunBytes == {<<>>, <<104, 105, 13, 10>>, <<97, 13, 98>>, <<255>>}
RunReturnCodes == {-11} \cup 0..MaxReturnCode

RunInit ==
    /\ DriverIdle
    /\ \E cmd \in RunCmds, so \in RunOpts, se \in RunOpts,
          rc \in RunReturnCodes, out \in RunBytes, err \in RunBytes :
          call = [fn |-> "run_cmd", cmd |-> cmd, stdout |-> so, stderr |-> se,
                  child |-> [returncode |-> rc, out |-> Written(out), err |-> Written(err)]]
    /\ ret = NotCalled

RunCall ==
    /\ call.fn = "run_cmd"
    /\ ~ret.done
    /\ ret' = [done |-> TRUE,
               result |-> run_cmd(call.cmd, call.stdout, call.stderr, call.child)]
    /\ UNCHANGED <<driver, call>>

RunNext == RunCall

SpecRunCmd == RunInit /\ [][RunNext]_vars

----------------------------------------------------------------------------
(* count_bases and total_bases on every report of the bounded input sets.  *)

CountValueTexts == {<<"-","1">>, <<"2">>, <<"3","0">>, <<"3","_","1">>, <<" ","3","7">>}
CountCountTexts == {<<"0">>, <<"5">>, <<"1","2">>, <<"x">>, <<"-","9","9","9","9","9","9","9","9","9","9","9","9","9","9","9","9","9","9","9","9">>}
CountMinScores == {-1, 0, 30, 31}
CountQualities == {Quality(v, c) : v \in CountValueTexts, c \in CountCountTexts}
\* A count of 4301 digits, one more than int() converts.
CountLongQualities == {<<Quality(<<"3","0">>, <<"1">> \o [i \in 1..4300 |-> "1"])>>}
CountTrees ==
    {Run(<<QualityCount(qs), Statistics(<<"2">>)>>) :
        qs \in SeqsUpTo(CountQualities, MaxQuality) \cup CountLongQualities}

CountInit ==
    /\ DriverIdle
    /\ \E tree \in CountTrees :
          \/ \E min_score \in CountMinScores :
                call = [fn |-> "count_bases", self |-> [NoSra EXCEPT !.built = TRUE, !.stat_tree = tree],
                        min_score |-> min_score]
          \/ call = [fn |-> "total_bases", self |-> [NoSra EXCEPT !.built = TRUE, !.stat_tree = tree],
                     min_score |-> 0]
    /\ ret = NotCalled

CountBasesCall ==
    /\ call.fn = "count_bases"
    /\ ~ret.done
    /\ ret' = [done |-> TRUE, result |-> count_bases(call.self, call.min_score)]
    /\ UNCHANGED <<driver, call>>

TotalBasesCall ==
    /\ call.fn = "total_bases"
    /\ ~ret.done
    /\ ret' = [done |-> TRUE, result |-> total_bases(call.self)]
    /\ UNCHANGED <<driver, call>>

CountNext == CountBasesCall \/ TotalBasesCall

SpecCount == CountInit /\ [][CountNext]_vars

----------------------------------------------------------------------------
(* Properties of the pipeline driver (specification Spec).                 *)

Min(S) == CHOOSE x \in S : \A y \in S : x <= y
Max(S) == CHOOSE x \in S : \A y \in S : x >= y

\* The program a command line starts: its first word.
FirstWord(cmd) ==
    LET spaces == {i \in 1..Len(cmd) : cmd[i] = " "}
    IN  IF spaces = {} THEN cmd ELSE SubSeq(cmd, 1, Min(spaces) - 1)

InvokedTools == [i \in 1..Len(invoked) |-> FirstWord(invoked[i])]

IsPrefix(a, b) == Len(a) <= Len(b) /\ \A i \in 1..Len(a) : a[i] = b[i]

\* The tools of the four stages that run one, in the order of the pipeline.
AllTools == <<<<"s","r","a","-","s","t","a","t">>, <<"f","a","s","t","q","-","d","u","m","p">>, <<"f","a","s","t","p">>, <<"s","h","o","v","i","l","l">>>>

\* The tools of the stages a run performs: the statistics stage only with --check.
ToolsOfRun == IF args.check THEN AllTools ELSE Tail(AllTools)

WasInvoked(tool) == \E i \in 1..Len(invoked) : FirstWord(invoked[i]) = tool

\* The archive of the run passed the gate: its report was read, its layout is
\* paired, and the share of its bases of a quality of 30 or more, computed
\* in floating point as line 88 computes it, is not below 80%.
Validated ==
    /\ sra.built
    /\ layout(sra) = [outcome |-> "return", val |-> <<"2">>]
    /\ count_bases(sra, 30).outcome = "return"
    /\ count_bases(sra, 0).outcome = "return"
    /\ q30_below(count_bases(sra, 30).val, count_bases(sra, 0).val)
           = [outcome |-> "return", val |-> FALSE]

\* The last record of the log is the reason of an abort.
LoggedAbort ==
    /\ pc = "exited"
    /\ log # <<>>
    /\ log[Len(log)].level = "DEBUG"

\* The process has ended: through sys.exit, or through an exception nothing
\* catches.
Ended == pc \in {"exited", "crashed"}

\* C1 as stated: in every run the tools are invoked in the fixed order
\* sra-stat, fastq-dump, fastp, shovill, each only after every earlier one
\* returned 0; a non-zero exit code ends the process at once; the fastq
\* directory is removed only after all four succeeded.
C1_FixedOrderInEveryRun ==
    /\ IsPrefix(InvokedTools, AllTools)
    /\ Len(rcs) = Len(invoked)
    /\ \A i \in 1..Len(rcs) - 1 : rcs[i] = 0
    /\ (rcs # <<>> /\ rcs[Len(rcs)] # 0) => Ended
    /\ world.removed => (Len(rcs) = Len(AllTools) /\ \A i \in 1..Len(rcs) : rcs[i] = 0)

\* C1, amended: the tools of the stages the run performs (the statistics stage
\* only with --check) are invoked in the fixed order, each only after every
\* earlier stage of the run completed successfully (its tool returned 0 and,
\* for the validation stage, the gate was passed); a non-zero exit code ends
\* the process at once; the fastq directory is removed only after all of
\* them succeeded.
C1_OrderOfPerformedStages ==
    /\ IsPrefix(InvokedTools, ToolsOfRun)
    /\ Len(rcs) = Len(invoked)
    /\ \A i \in 1..Len(rcs) - 1 : rcs[i] = 0
    /\ (rcs # <<>> /\ rcs[Len(rcs)] # 0) => Ended
    /\ (args.check /\ Len(invoked) >= 2) => Validated
    /\ world.removed => (Len(rcs) = Len(ToolsOfRun) /\ \A i \in 1..Len(rcs) : rcs[i] = 0)

\* A run with --check in which sra-stat and fastq-dump succeeded and fastp failed.
C1_Witness ==
    /\ args.check
    /\ pc = "exited"
    /\ InvokedTools = SubSeq(AllTools, 1, 3)
    /\ rcs[3] # 0

\* C3 as stated: fastq-dump is never invoked on an archive whose layout and
\* quality were not validated.
C3_DumpOnlyAfterValidation ==
    WasInvoked(<<"f","a","s","t","q","-","d","u","m","p">>) => Validated

\* C3, amended: with --check the validation comes after the READS.sra link is
\* made and before the dump, and fastq-dump is never invoked on an archive
\* that was not validated; without --check no validation is performed.
C3_ValidationBeforeDumpWithCheck ==
    /\ (args.check /\ WasInvoked(<<"f","a","s","t","q","-","d","u","m","p">>)) =>
           (Validated /\ InvokedTools[1] = <<"s","r","a","-","s","t","a","t">> /\ InvokedTools[2] = <<"f","a","s","t","q","-","d","u","m","p">>)
    /\ WasInvoked(<<"s","r","a","-","s","t","a","t">>) => (args.check /\ world.link)
    /\ sra.built => WasInvoked(<<"s","r","a","-","s","t","a","t">>)

\* A run with --check that reached the dump.
C3_Witness ==
    /\ args.check
    /\ WasInvoked(<<"f","a","s","t","q","-","d","u","m","p">>)
    /\ sra.built

\* C4: with --check and the report read, once the validation is over the driver
\* has gone on to the dump exactly when the layout is paired and the Q30
\* percentage is at least 80; otherwise it has logged the reason and exited
\* with none of fastq-dump, fastp and shovill invoked.
C4_GateIffPairedAndQ30 ==
    (args.check /\ sra.built /\ pc \notin {"layout", "q30"}) =>
        /\ (pc = "dump" \/ WasInvoked(<<"f","a","s","t","q","-","d","u","m","p">>)) <=> Validated
        /\ ~Validated => (LoggedAbort /\ Len(invoked) = 1)

\* C8: a run that stopped on a failure has a non-zero exit status, and the
\* status is 0 only after shovill succeeded, the fastq directory was removed
\* and 'Done' was logged.
C8_FailureExitsNonZero ==
    /\ pc \in {"exited", "crashed"} => exitStatus # 0
    /\ exitStatus = 0 =>
           /\ WasInvoked(<<"s","h","o","v","i","l","l">>) /\ rcs[Len(rcs)] = 0
           /\ world.removed
           /\ log # <<>> /\ log[Len(log)] = InfoRecord(<<"D","o","n","e">>)

\* C9: with --check the validation stage never ends in an unhandled exception.
C9_ValidationNeverUnhandled ==
    args.check => traceback.stage # "check"

----------------------------------------------------------------------------
(* Properties of run_cmd (specification SpecRunCmd).                       *)

Captured(opt) == opt.kind = "bool" /\ opt.b

\* The text of what the child wrote on a stream, as a pipe delivers it.
TextOf(data) == PyStr(translate_newlines(data).val)

\* C2: a non-zero exit code raises ApplicationError with the exit code, the
\* command and the captured texts; a zero exit code returns the pair of the
\* captured texts; there is no third outcome.
C2_RaiseIffNonZero ==
    (call.fn = "run_cmd" /\ ret.done) =>
        LET r == ret.result
            c == call.child
        IN  /\ r.outcome \in {"return", "ApplicationError"}
            /\ c.returncode # 0 =>
                   /\ r.outcome = "ApplicationError"
                   /\ r.exc.returncode = c.returncode
                   /\ r.exc.cmd = call.cmd
                   /\ Captured(call.stdout) => r.exc.stdout = TextOf(c.out)
                   /\ Captured(call.stderr) => r.exc.stderr = TextOf(c.err)
            /\ c.returncode = 0 =>
                   /\ r.outcome = "return"
                   /\ Len(r.value) = 2
                   /\ Captured(call.stdout) => r.value[1] = TextOf(c.out)
                   /\ Captured(call.stderr) => r.value[2] = TextOf(c.err)

\* C6: the pair run_cmd returns holds the empty string for a stream that is
\* not captured (False, or a file name) and the text for a captured one.
C6_EmptyStringWhenNotCaptured ==
    (call.fn = "run_cmd" /\ ret.done /\ ret.result.outcome = "return") =>
        /\ ret.result.value[1] = IF Captured(call.stdout) THEN TextOf(call.child.out) ELSE PyStr(<<>>)
        /\ ret.result.value[2] = IF Captured(call.stderr) THEN TextOf(call.child.err) ELSE PyStr(<<>>)

----------------------------------------------------------------------------
(* Properties of ApplicationError.__str__ (specification SpecStr).         *)

\* The first line of the text s, without the whitespace that leads the whole
\* text and without the whitespace that ends that line.
FirstLineOf(s) ==
    LET solid == {i \in 1..Len(s) : s[i] \notin Whitespace}
    IN  IF solid = {} THEN <<>>
        ELSE LET first == Min(solid)
                 breaks == {k \in first..Len(s) : s[k] = "\n"}
                 stop == IF breaks = {} THEN Len(s) + 1 ELSE Min(breaks)
                 last == Max({k \in first..(stop - 1) : k \in solid})
             IN  SubSeq(s, first, last)

\* C7: str(err) is "Non-zero return code <returncode> from <repr(cmd)>", and
\* then ", message <repr(msg)>" when msg, the first line of stderr, is not
\* empty; there is no message part when msg is empty or stderr is no str.
C7_StrFormat ==
    (call.fn = "__str__" /\ ret.done) =>
        LET self == call.self
            msg == IF self.stderr.type = "str" THEN FirstLineOf(self.stderr.val) ELSE <<>>
            head == <<"N","o","n","-","z","e","r","o"," ","r","e","t","u","r","n"," ","c","o","d","e"," ">> \o format_d(self.returncode) \o <<" ","f","r","o","m"," ">>
                        \o repr(self.cmd)
        IN  ret.text = IF msg # <<>> THEN head \o <<","," ","m","e","s","s","a","g","e"," ">> \o repr(msg) ELSE head

\* A stderr whose first line comes after leading whitespace with a newline in it.
C7_Witness ==
    /\ call.fn = "__str__"
    /\ ret.done
    /\ call.self.returncode = -11
    /\ call.self.cmd = <<"l","s">>
    /\ call.self.stderr = PyStr(<<"\n","e"," ","\n">>)
    /\ ret.text = <<"N","o","n","-","z","e","r","o"," ","r","e","t","u","r","n"," ","c","o","d","e"," ","-",
      "1","1"," ","f","r","o","m"," ","'","l","s","'",","," ","m","e","s","s","a","g","e",
      " ","'","e","'">>

----------------------------------------------------------------------------
(* Properties of count_bases and total_bases (specification SpecCount).    *)

QualitiesOf(self) == findall_star(self.stat_tree, "Quality")

\* The number a text writes, whatever its length.
NumberOf(text) ==
    LET bits == DecimalBits(numeral(text).digits)
    IN  [neg |-> numeral(text).neg /\ bits # <<>>, bits |-> bits]

\* The indices of the Quality entries whose value is at least min_score.
AtLeast(qs, min_score) ==
    {i \in 1..Len(qs) : ~int_lt(NumberOf(qs[i].attrib.value), PyInt(min_score))}

RECURSIVE SumOfCounts(_, _)
SumOfCounts(qs, S) ==
    IF S = {} THEN PyInt(0)
    ELSE LET i == CHOOSE j \in S : TRUE
         IN  int_add(NumberOf(qs[i].attrib.count), SumOfCounts(qs, S \ {i}))

\* C5: on a report whose values and counts are numbers, count_bases(min_score)
\* returns the sum of the counts of the Quality entries whose value is at
\* least min_score (0 when there is none), and total_bases is count_bases(0),
\* the sum over the entries of non-negative value.
C5_CountBasesIsSum ==
    (call.fn \in {"count_bases", "total_bases"} /\ ret.done) =>
        LET qs == QualitiesOf(call.self)
            sel == AtLeast(qs, IF call.fn = "total_bases" THEN 0 ELSE call.min_score)
        IN  /\ (\A i \in 1..Len(qs) :
                    numeral(qs[i].attrib.value).ok /\ numeral(qs[i].attrib.count).ok) =>
                   ret.result = [outcome |-> "return", val |-> SumOfCounts(qs, sel)]
            /\ call.fn = "total_bases" => ret.result = count_bases(call.self, 0)

\* What holds of C5: the sum is returned when int() converts every value
\* read and every count of an entry that is reached, which it does up to
\* 4300 digits; a count it does not convert raises ValueError when its
\* entry is reached.
CountBasesIsSumOfConverted ==
    (call.fn \in {"count_bases", "total_bases"} /\ ret.done) =>
        LET qs == QualitiesOf(call.self)
            sel == AtLeast(qs, IF call.fn = "total_bases" THEN 0 ELSE call.min_score)
        IN  /\ (\A i \in 1..Len(qs) : int(qs[i].attrib.value).ok) =>
                   IF \A i \in sel : int(qs[i].attrib.count).ok
                   THEN ret.result = [outcome |-> "return", val |-> SumOfCounts(qs, sel)]
                   ELSE ret.result.outcome = "ValueError"
            /\ call.fn = "total_bases" => ret.result = count_bases(call.self, 0)

=============================================================================
